---- MODULE Spec2Model ----
(***************************************************************************)
(* Memory-game backend (src/__main__.py): the session store _token2game,   *)
(* the Game object (items, score, ended), the expiry timer and the         *)
(* open_game_pic handler.                                                  *)
(*                                                                         *)
(* The handler is modelled as a step function over its program counter:    *)
(* one step per statement, one step per item of each of its two loops, and *)
(* the read and the write of `game.score += 30` as two steps.  Five        *)
(* specifications use the same steps:                                      *)
(*   Spec      requests and the timer callback run one at a time, each to  *)
(*             completion;                                                 *)
(*   LiveSpec  as Spec with the reveal calls capped, and the timer thread  *)
(*             scheduled (weak fairness);                                  *)
(*   EndSpec   requests run one at a time up to their call of end(); the   *)
(*             steps of end() in the request thread and in the timer       *)
(*             thread interleave;                                          *)
(*   ConcSpec  the handlers of two worker threads interleave step by step; *)
(*   RaceSpec  the handler of one worker thread interleaves step by step   *)
(*             with end() in the timer thread.                             *)
(* One session is followed: sessions share nothing but _token2game.        *)
(***************************************************************************)
EXTENDS Integers, Sequences, FiniteSets, TLC

\* ---------------------------------------------------------------- constants
NPhotos == 8            \* list(range(8))
NRows == 4              \* for i in range(4)
NCols == 4              \* photos[i * 4 : (i + 1) * 4]
MatchBonus == 30        \* game.score += 30
MismatchPenalty == 10   \* game.score -= 10

\* ------------------------------------------------------------------- bounds
MaxMisses == 2          \* Spec, EndSpec: reveals are issued while fewer mismatches happened
MaxLiveCalls == 2       \* LiveSpec: reveal calls issued in all
MaxEndMisses == 1       \* EndSpec: reveals are issued while fewer mismatches happened
MaxConcCalls == 3       \* ConcSpec, RaceSpec: reveal calls issued in all
MaxConcCell == 2        \* ConcSpec, RaceSpec: reveals address the cells 0..MaxConcCell of row 0

NCells == NRows * NCols
Rows == 0 .. (NRows - 1)
Cols == 0 .. (NCols - 1)
Cells == 0 .. (NCells - 1)

Tokens == {"t1"}                 \* tokens secrets.token_urlsafe hands out
AnyToken == Tokens \cup {"zz"}   \* tokens a caller may send
Workers == {"w1", "w2"}          \* request threads
Timer == "timer"                 \* the threading.Timer thread
Threads == Workers \cup {Timer}

\* class ImgStatus
ImgStatus == {"CLOSED", "TEMP_OPEN", "OPEN", "CLOSING"}

\* Item.status default
ItemDefaultStatus == "CLOSING"

\* ------------------------------------------------------------ board building
\* photos = list(range(8)) * 2
Photos == [i \in 0 .. (2 * NPhotos - 1) |-> i % NPhotos]

\* The outcomes of random.shuffle(photos) the model follows: position k of
\* the shuffled list holds photos[p[k + 1]].
Shuffles ==
  { <<0, 1, 2, 3, 4, 5, 6, 7, 8, 9, 10, 11, 12, 13, 14, 15>>,
    <<0, 8, 1, 9, 2, 10, 3, 11, 4, 12, 5, 13, 6, 14, 7, 15>> }

\* Game.createItems: four rows of four Items, status left at its default
createItems(p) ==
  [r \in Rows |-> [c \in Cols |->
      [photoId |-> Photos[p[r * NCols + c + 1]], status |-> ItemDefaultStatus]]]

\* the k-th item in the order of `for item_row in game.items: for item in item_row`
RowOf(k) == k \div NCols
ColOf(k) == k % NCols

VARIABLES
  token2game,   \* keys of GameWithExtras._token2game
  token,        \* token of the game object, "none" before create_game
  items,        \* game.items
  score,        \* game.score
  ended,        \* game.ended
  ended_event,  \* game.ended_event is set
  th,           \* per thread: position in its handler and its locals
  turn0,        \* history: score when the current turn began (Spec)
  misses,       \* history: mismatches resolved
  calls,        \* history: reveal calls issued (ConcSpec)
  issued,       \* history: cells of the reveal calls issued (ConcSpec)
  transitions   \* history: executions of `self.ended = True`

vars == <<token2game, token, items, score, ended, ended_event, th,
          turn0, misses, calls, issued, transitions>>

\* A thread outside any handler
Idle ==
  [pc |-> "idle", tok |-> "none", row |-> 0, col |-> 0, i |-> 0,
   temp_opened |-> <<>>, opened |-> 0, rd |-> 0, result |-> "none"]

NoItems == [r \in Rows |-> [c \in Cols |-> [photoId |-> 0, status |-> ItemDefaultStatus]]]

Init ==
  /\ token2game = {}
  /\ token = "none"
  /\ items = NoItems
  /\ score = 0
  /\ ended = FALSE
  /\ ended_event = FALSE
  /\ th = [t \in Threads |-> Idle]
  /\ turn0 = 0
  /\ misses = 0
  /\ calls = 0
  /\ issued = <<>>
  /\ transitions = 0

\* The shared state a handler step reads and writes
Shared ==
  [token2game |-> token2game, token |-> token, items |-> items, score |-> score,
   ended |-> ended, ended_event |-> ended_event, misses |-> misses,
   transitions |-> transitions]

\* ---------------------------------------------------------- handler steps
Return(l, r) == [l EXCEPT !.pc = "done", !.result = r]

\* get_game_by_token: _token2game.get(game_token, None)
get_game_by_token(g, tok) == IF tok \in g.token2game THEN "found" ELSE "NotFound"

\* (variant: the check forgets TEMP_OPEN)
AlreadyOpened_bug(status) == status = "OPEN"

\* item.status in [ImgStatus.OPEN, ImgStatus.TEMP_OPEN]
AlreadyOpened(status) == status \in {"OPEN", "TEMP_OPEN"}

\* (variant: the scan leaves CLOSING items as they are)
ScanStatus_bug(status) == status

\* if item.status == ImgStatus.CLOSING: item.status = ImgStatus.CLOSED
ScanStatus(status) == IF status = "CLOSING" THEN "CLOSED" ELSE status

\* if item.status == ImgStatus.TEMP_OPEN: temp_opened.append(item)
ScanCollect(temp, status, k) == IF status = "TEMP_OPEN" THEN Append(temp, k) ELSE temp

\* if len(temp_opened) < 2: return game
FirstPick(temp) == Len(temp) < 2

\* item1.photoId == item2.photoId
\* (variant: any two picked items count as a pair)
IsMatch_bug(its, k1, k2) == TRUE

IsMatch(its, k1, k2) ==
  its[RowOf(k1)][ColOf(k1)].photoId = its[RowOf(k2)][ColOf(k2)].photoId

\* (variant: the picked item is opened for good)
PickStatus_bug == "OPEN"

\* item.status = ImgStatus.TEMP_OPEN
PickStatus == "TEMP_OPEN"

\* item1.status = ImgStatus.OPEN; item2.status = ImgStatus.OPEN
MatchStatus == "OPEN"

\* (variant: a mismatched pair is hidden at once)
MismatchStatus_bug == "CLOSED"

\* item1.status = ImgStatus.CLOSING; item2.status = ImgStatus.CLOSING
MismatchStatus == "CLOSING"

\* (variant: a match is scored like a mismatch is fined)
MatchScore_bug(s) == s + MismatchPenalty

\* game.score += 30
MatchScore(s) == s + MatchBonus

\* game.score -= 10
\* (variant: a mismatch costs as much as a match gives)
MismatchScore_bug(s) == s - MatchBonus

MismatchScore(s) == s - MismatchPenalty

\* (variant: the count is compared with one more than the board holds)
AllOpened_bug(n) == n = NCells + 1

\* if len(opened) == 16
AllOpened(n) == n = NCells

\* (variant: the item is replaced by a new Item with the status)
SetStatus_bug(its, k, s) ==
  [its EXCEPT ![RowOf(k)][ColOf(k)] = [photoId |-> 0, status |-> s]]

SetStatus(its, k, s) == [its EXCEPT ![RowOf(k)][ColOf(k)].status = s]

\* One step of GameWithExtras.end in the thread with locals l
EndStep(g, l) ==
  CASE l.pc = "end_check" ->          \* if not self.ended:
         IF ~g.ended
         THEN [g |-> g, l |-> [l EXCEPT !.pc = "end_set"]]
         ELSE [g |-> g, l |-> Return(l, "ok")]
    [] l.pc = "end_set" ->            \* self.ended = True; self.ended_event.set()
         [g |-> [g EXCEPT !.ended = TRUE, !.ended_event = TRUE,
                          !.transitions = @ + 1],
          l |-> [l EXCEPT !.pc = "end_pop"]]
    [] l.pc = "end_pop" ->            \* self._token2game.pop(self.token)
         IF g.token \in g.token2game
         THEN [g |-> [g EXCEPT !.token2game = @ \ {g.token}], l |-> Return(l, "ok")]
         ELSE [g |-> g, l |-> Return(l, "KeyError")]

\* One step of open_game_pic in the thread with locals l
OpenStep(g, l) ==
  CASE l.pc = "scan" ->               \* one item of the first loop
         LET st   == g.items[RowOf(l.i)][ColOf(l.i)].status
             temp == ScanCollect(l.temp_opened, st, l.i)
             g2   == IF ScanStatus(st) = st THEN g
                     ELSE [g EXCEPT !.items = SetStatus(@, l.i, ScanStatus(st))]
         IN  IF l.i + 1 < NCells
             THEN [g |-> g2, l |-> [l EXCEPT !.i = @ + 1, !.temp_opened = temp]]
             ELSE IF FirstPick(temp)
                  THEN [g |-> g2, l |-> Return(l, "ok")]
                  ELSE [g |-> g2,
                        l |-> [l EXCEPT !.i = 0, !.temp_opened = temp,
                                        !.pc = IF IsMatch(g.items, temp[1], temp[2])
                                               THEN "m_item1" ELSE "x_rd"]]
    [] l.pc = "count" ->              \* one item of the second loop; if len(opened) == 16
         LET n == l.opened + (IF g.items[RowOf(l.i)][ColOf(l.i)].status = "OPEN"
                              THEN 1 ELSE 0)
         IN  IF l.i + 1 < NCells
             THEN [g |-> g, l |-> [l EXCEPT !.i = @ + 1, !.opened = n]]
             ELSE IF AllOpened(n)
                  THEN [g |-> g, l |-> [l EXCEPT !.opened = n, !.pc = "end_check"]]
                  ELSE [g |-> g, l |-> Return(l, "ok")]
    [] l.pc = "check" ->              \* item = game.items[row][col]; if item.status in [...]
         IF AlreadyOpened(g.items[l.row][l.col].status)
         THEN [g |-> g, l |-> Return(l, "Conflict")]
         ELSE [g |-> g, l |-> [l EXCEPT !.pc = "set"]]
    [] l.pc = "set" ->                \* item.status = ImgStatus.TEMP_OPEN; temp_opened = []
         [g |-> [g EXCEPT !.items[l.row][l.col].status = PickStatus],
          l |-> [l EXCEPT !.pc = "scan", !.i = 0, !.temp_opened = <<>>]]
    [] l.pc = "m_item1" ->            \* item1.status = ImgStatus.OPEN
         [g |-> [g EXCEPT !.items = SetStatus(@, l.temp_opened[1], MatchStatus)],
          l |-> [l EXCEPT !.pc = "m_item2"]]
    [] l.pc = "m_item2" ->            \* item2.status = ImgStatus.OPEN
         [g |-> [g EXCEPT !.items = SetStatus(@, l.temp_opened[2], MatchStatus)],
          l |-> [l EXCEPT !.pc = "m_rd"]]
    [] l.pc = "m_rd" ->               \* game.score += 30: the read
         [g |-> g, l |-> [l EXCEPT !.pc = "m_wr", !.rd = g.score]]
    [] l.pc = "m_wr" ->               \* game.score += 30: the write
         [g |-> [g EXCEPT !.score = MatchScore(l.rd)],
          l |-> [l EXCEPT !.pc = "count", !.rd = 0, !.i = 0, !.opened = 0]]
    [] l.pc = "x_rd" ->               \* game.score -= 10: the read
         [g |-> g, l |-> [l EXCEPT !.pc = "x_wr", !.rd = g.score]]
    [] l.pc = "x_wr" ->               \* game.score -= 10: the write
         [g |-> [g EXCEPT !.score = MismatchScore(l.rd), !.misses = @ + 1],
          l |-> [l EXCEPT !.pc = "x_item1", !.rd = 0]]
    [] l.pc = "x_item1" ->            \* item1.status = ImgStatus.CLOSING
         [g |-> [g EXCEPT !.items = SetStatus(@, l.temp_opened[1], MismatchStatus)],
          l |-> [l EXCEPT !.pc = "x_item2"]]
    [] l.pc = "x_item2" ->            \* item2.status = ImgStatus.CLOSING
         [g |-> [g EXCEPT !.items = SetStatus(@, l.temp_opened[2], MismatchStatus)],
          l |-> [l EXCEPT !.pc = "count", !.i = 0, !.opened = 0]]
    [] l.pc \in {"end_check", "end_set", "end_pop"} -> EndStep(g, l)

\* The request enters the handler: Depends(get_game_by_token), then the body
Enter(g, tok, row, col) ==
  IF get_game_by_token(g, tok) = "found"
  THEN [g |-> g, l |-> [Idle EXCEPT !.pc = "check", !.tok = tok, !.row = row, !.col = col]]
  ELSE [g |-> g, l |-> Return([Idle EXCEPT !.tok = tok, !.row = row, !.col = col],
                              "NotFound")]

RECURSIVE RunUntil(_, _)
\* The thread runs, without another thread in between, until its pc is in `stop`
RunUntil(w, stop) ==
  IF w.l.pc \in stop THEN w ELSE RunUntil(OpenStep(w.g, w.l), stop)

\* open_game_pic from the request to the response
open_game_pic(g, tok, row, col) == RunUntil(Enter(g, tok, row, col), {"done"})

\* (variant: the callback returns without ending the game)
end_bug(g) == [g |-> g, l |-> Return([Idle EXCEPT !.pc = "end_check"], "ok")]

\* GameWithExtras.end from call to return
end(g) == RunUntil([g |-> g, l |-> [Idle EXCEPT !.pc = "end_check"]], {"done"})

\* The shared variables take the values of g
Store(g) ==
  /\ token2game' = g.token2game
  /\ items' = g.items
  /\ score' = g.score
  /\ ended' = g.ended
  /\ ended_event' = g.ended_event
  /\ misses' = g.misses
  /\ transitions' = g.transitions

StatusOf(its, k) == its[RowOf(k)][ColOf(k)].status
PhotoOf(its, k) == its[RowOf(k)][ColOf(k)].photoId
WithStatus(its, s) == {k \in Cells : StatusOf(its, k) = s}
TempOpen(its) == WithStatus(its, "TEMP_OPEN")

\* ------------------------------------------------------------------- Spec
\* The reveal requests callers send: every cell of a game's board under its
\* token, and a token no game has
Requests == (Tokens \X Rows \X Cols) \cup {<<"zz", 0, 0>>}

\* create_game: GameWithExtras(), game.start(), game.store()
create_game ==
  /\ token = "none"
  /\ \E tk \in Tokens, p \in Shuffles :
       /\ token' = tk
       /\ items' = createItems(p)
       /\ token2game' = token2game \cup {tk}
       /\ th' = [th EXCEPT ![Timer] = [Idle EXCEPT !.pc = "armed", !.tok = tk]]
  /\ score' = 0
  /\ ended' = FALSE
  /\ ended_event' = FALSE
  /\ UNCHANGED <<turn0, misses, calls, issued, transitions>>

\* GET /games/{game_token}: the lookup changes nothing
GetGame ==
  \E tok \in AnyToken :
    /\ get_game_by_token(Shared, tok) \in {"found", "NotFound"}
    /\ UNCHANGED vars

\* POST /games/{game_token}/open, from request to response
OpenBody ==
  \E rq \in Requests :
    \E w \in {open_game_pic(Shared, rq[1], rq[2], rq[3])} :
      /\ Store(w.g)
      /\ turn0' = IF TempOpen(w.g.items) = {} THEN w.g.score ELSE turn0

OpenPic ==
  /\ misses < MaxMisses
  /\ OpenBody
  /\ UNCHANGED <<token, th, calls, issued>>

\* The timer thread runs self.end 65 seconds after start()
TimerEnd ==
  /\ th[Timer].pc = "armed"
  /\ \E w \in {end(Shared)} :
       /\ Store(w.g)
       /\ th' = [th EXCEPT ![Timer] = w.l]
  /\ UNCHANGED <<token, turn0, calls, issued>>

Next == create_game \/ GetGame \/ OpenPic \/ TimerEnd

Spec == Init /\ [][Next]_vars

\* ------------------------------------------------- properties of Spec
\* The session is registered: a request with its token reaches the handler body
Live == token \in token2game

\* The outcome of a reveal of cell k of the session, requested in this state
Reveal(k) == open_game_pic(Shared, token, RowOf(k), ColOf(k))

\* C4: with exactly one TEMP_OPEN tile a, a reveal of a tile b that is neither
\* OPEN nor TEMP_OPEN and carries a's pairId returns with a and b OPEN and the
\* score 30 higher.
C4_MatchOpensBoth ==
  (Live /\ Cardinality(TempOpen(items)) = 1) =>
    \A a \in TempOpen(items), b \in Cells :
      (/\ ~AlreadyOpened(StatusOf(items, b))
       /\ PhotoOf(items, a) = PhotoOf(items, b))
      => \A w \in {Reveal(b)} :
           /\ w.l.result = "ok"
           /\ StatusOf(w.g.items, a) = "OPEN"
           /\ StatusOf(w.g.items, b) = "OPEN"
           /\ w.g.score = score + 30

\* A first match was resolved: one pair is OPEN and the score is 30
C4_Witness ==
  /\ score = 30
  /\ misses = 0
  /\ \E a \in Cells, b \in Cells :
       /\ a # b
       /\ PhotoOf(items, a) = PhotoOf(items, b)
       /\ WithStatus(items, "OPEN") = {a, b}

\* C5: with exactly one TEMP_OPEN tile a, a reveal of a tile b that is neither
\* OPEN nor TEMP_OPEN and carries another pairId returns with a and b CLOSING
\* and the score 10 lower than before the call and 10 lower than when the turn
\* began (the first pick of the turn subtracted nothing).
C5_MismatchClosing ==
  (Live /\ Cardinality(TempOpen(items)) = 1) =>
    \A a \in TempOpen(items), b \in Cells :
      (/\ ~AlreadyOpened(StatusOf(items, b))
       /\ PhotoOf(items, a) # PhotoOf(items, b))
      => \A w \in {Reveal(b)} :
           /\ w.l.result = "ok"
           /\ StatusOf(w.g.items, a) = "CLOSING"
           /\ StatusOf(w.g.items, b) = "CLOSING"
           /\ w.g.score = score - 10
           /\ w.g.score = turn0 - 10

\* A first mismatch was resolved: two tiles of different pairIds are CLOSING
\* and the score is -10
C5_Witness ==
  /\ score = -10
  /\ misses = 1
  /\ \E a \in Cells, b \in Cells :
       /\ PhotoOf(items, a) # PhotoOf(items, b)
       /\ WithStatus(items, "CLOSING") = {a, b}

\* The two tiles a mismatch left CLOSING
AfterMismatch == Live /\ Cardinality(WithStatus(items, "CLOSING")) = 2

\* C6 as claimed: after a mismatch left two tiles CLOSING, the next reveal,
\* whichever cell it addresses, returns with both of them CLOSED.
C6_AnyRevealCloses ==
  AfterMismatch =>
    \A k \in Cells : \A w \in {Reveal(k)} :
      \A c \in WithStatus(items, "CLOSING") : StatusOf(w.g.items, c) = "CLOSED"

\* C6 amended: after a mismatch left two tiles CLOSING, the next reveal that
\* is not rejected with Conflict returns with each of them CLOSED, except the
\* one the reveal itself addresses, which is TEMP_OPEN; a reveal rejected with
\* Conflict leaves both CLOSING.
C6_AcceptedRevealCloses ==
  AfterMismatch =>
    \A k \in Cells : \A w \in {Reveal(k)} :
      \A c \in WithStatus(items, "CLOSING") :
        StatusOf(w.g.items, c) =
          IF w.l.result = "Conflict" THEN "CLOSING"
          ELSE IF c = k THEN "TEMP_OPEN" ELSE "CLOSED"

\* A mismatch was resolved and the reveal after it has hidden the pair
C6_Witness ==
  /\ Live
  /\ misses = 1
  /\ score = -10
  /\ WithStatus(items, "CLOSING") = {}
  /\ Cardinality(TempOpen(items)) = 1
  /\ Cardinality(WithStatus(items, "CLOSED")) = NCells - 1

\* C7: a reveal of a tile that is OPEN or TEMP_OPEN is rejected with Conflict
\* and leaves every tile status, the score, the ended flag and the store as
\* they were.
C7_ConflictChangesNothing ==
  \A k \in Cells :
    (Live /\ StatusOf(items, k) \in {"OPEN", "TEMP_OPEN"})
    => \A w \in {Reveal(k)} :
         /\ w.l.result = "Conflict"
         /\ w.g = Shared

\* A session in which reveals of OPEN and of TEMP_OPEN tiles are rejected
\* while two tiles are CLOSING
C7_Witness ==
  /\ Live
  /\ WithStatus(items, "OPEN") # {}
  /\ Cardinality(WithStatus(items, "CLOSING")) = 2
  /\ \E k \in WithStatus(items, "OPEN") : Reveal(k).l.result = "Conflict"

\* C8: with no TEMP_OPEN tile, a reveal of a CLOSED tile returns with that
\* tile TEMP_OPEN, the score unchanged, no tile newly OPEN or CLOSING and the
\* session neither ended nor removed.
C8_FirstPick ==
  \A k \in Cells :
    (Live /\ TempOpen(items) = {} /\ StatusOf(items, k) = "CLOSED")
    => \A w \in {Reveal(k)} :
         /\ w.l.result = "ok"
         /\ TempOpen(w.g.items) = {k}
         /\ w.g.score = score
         /\ WithStatus(w.g.items, "OPEN") = WithStatus(items, "OPEN")
         /\ WithStatus(w.g.items, "CLOSING") = {}
         /\ w.g.ended = ended
         /\ w.g.token2game = token2game

\* The first pick of the second turn was made on a CLOSED tile
C8_Witness ==
  /\ Live
  /\ ~ended
  /\ score = 30
  /\ Cardinality(WithStatus(items, "OPEN")) = 2
  /\ Cardinality(TempOpen(items)) = 1
  /\ turn0 = 30

AllOpen(its) == WithStatus(its, "OPEN") = Cells

\* C9: the reveal that brings the last tile to OPEN returns with ended true
\* and the token removed from the store; once all tiles are OPEN every get
\* and every reveal with the token answers NotFound.
C9_WinEnds ==
  /\ [][(AllOpen(items') /\ ~AllOpen(items)) =>
          (ended' /\ token \notin token2game')]_vars
  /\ [](AllOpen(items) =>
          /\ ended
          /\ get_game_by_token(Shared, token) = "NotFound"
          /\ \A k \in Cells : Reveal(k).l.result = "NotFound")

\* The game was won: all sixteen tiles are OPEN
C9_Witness ==
  /\ AllOpen(items)
  /\ ended
  /\ token \notin token2game
  /\ score = 8 * 30 - 10 * misses

\* ------------------------------------------- further properties of Spec
\* C11: the session create_game returns has all sixteen tiles CLOSED, score 0
\* and ended false.
C11_CreatedAllClosed ==
  [][(token = "none" /\ token' # "none") =>
       /\ \A k \in Cells : StatusOf(items', k) = "CLOSED"
       /\ score' = 0
       /\ ~ended']_vars

\* C12: a created session is registered under its token exactly while its
\* ended flag is false, so a lookup never returns a session whose ended flag
\* is true, and it is removed in the step that sets ended, once.
C12_RegisteredIffNotEnded ==
  /\ token # "none" => (get_game_by_token(Shared, token) = "found" <=> ~ended)
  /\ transitions <= 1
  /\ \A t \in Threads : th[t].result # "KeyError"

\* response_model=Game: the body create, get and reveal answer with; the
\* fields of Game, each Item with its photoId and status
Response(g) ==
  [token |-> g.token, items |-> g.items, ended |-> g.ended, score |-> g.score]

\* Shared with some other pairId on tile k
WithPhoto(k, v) == [Shared EXCEPT !.items[RowOf(k)][ColOf(k)].photoId = v]

\* C13: the response carries no pairId of a CLOSED or CLOSING tile: a session
\* that differs in the pairId of such a tile only answers with the same body.
C13_HiddenPairIdNotExposed ==
  Live =>
    \A k \in WithStatus(items, "CLOSED") \cup WithStatus(items, "CLOSING") :
      \A v \in 0 .. (NPhotos - 1) : Response(WithPhoto(k, v)) = Response(Shared)

\* C14: once a session has ended through the win path, no expiry callback
\* for it is armed.
C14_WinCancelsTimer ==
  (AllOpen(items) /\ ended) => th[Timer].pc # "armed"


\* C17: the board of a session always holds 4 rows of 4 tiles with each
\* pairId 0..7 on exactly two tiles, and no step after creation changes the
\* pairId at any position.
C17_BoardFixed ==
  /\ [](token # "none" =>
          /\ DOMAIN items = Rows
          /\ \A r \in Rows : DOMAIN items[r] = Cols
          /\ \A p \in 0 .. (NPhotos - 1) :
               Cardinality({k \in Cells : PhotoOf(items, k) = p}) = 2)
  /\ [][token # "none" =>
          \A k \in Cells : PhotoOf(items', k) = PhotoOf(items, k)]_vars

\* reveals matched and mismatched and the session ended, pairIds in place
C17_Witness ==
  /\ ended
  /\ misses = MaxMisses
  /\ WithStatus(items, "OPEN") # {}
  /\ \A p \in 0 .. (NPhotos - 1) :
       Cardinality({k \in Cells : PhotoOf(items, k) = p}) = 2

\* C19: with reveals run one at a time, an OPEN tile stays OPEN and a tile is
\* OPEN only if the other tile with its pairId is OPEN too.
C19_OpenGrowsInPairs ==
  /\ [](token # "none" =>
          \A k \in WithStatus(items, "OPEN") :
            \E j \in WithStatus(items, "OPEN") :
              j # k /\ PhotoOf(items, j) = PhotoOf(items, k))
  /\ [][WithStatus(items, "OPEN") \subseteq WithStatus(items', "OPEN")]_vars

\* two pairs are OPEN, a mismatch was resolved and a further tile is picked
C19_Witness ==
  /\ Cardinality(WithStatus(items, "OPEN")) = 4
  /\ misses = 1
  /\ Cardinality(TempOpen(items)) = 1
  /\ ~ended

\* C20: with reveals run one at a time, every reveal that changes the board
\* leaves at most one tile TEMP_OPEN and none or two tiles CLOSING, and the
\* score at 30 per OPEN pair less 10 per mismatch resolved.
C20_AfterReveal ==
  [][(token # "none" /\ (items' # items \/ score' # score)) =>
       /\ Cardinality(TempOpen(items')) <= 1
       /\ Cardinality(WithStatus(items', "CLOSING")) \in {0, 2}
       /\ score' = MatchBonus * (Cardinality(WithStatus(items', "OPEN")) \div 2)
                     - MismatchPenalty * misses']_vars

\* one pair OPEN and the second mismatch just resolved
C20_Witness ==
  /\ Cardinality(WithStatus(items, "OPEN")) = 2
  /\ Cardinality(WithStatus(items, "CLOSING")) = 2
  /\ TempOpen(items) = {}
  /\ misses = 2
  /\ score = MatchBonus - 2 * MismatchPenalty

\* ---------------------------------------------------------------- LiveSpec
\* As Spec, with the reveal calls counted and capped, and the timer thread
\* scheduled: 65 seconds after start() it runs self.end
LiveOpenPic ==
  /\ calls < MaxLiveCalls
  /\ calls' = calls + 1
  /\ OpenBody
  /\ UNCHANGED <<token, th, issued>>

LiveNext == create_game \/ GetGame \/ LiveOpenPic \/ TimerEnd

LiveSpec == Init /\ [][LiveNext]_vars /\ WF_vars(TimerEnd)

\* Every get and every reveal with the session's token answers NotFound
Unreachable ==
  /\ get_game_by_token(Shared, token) = "NotFound"
  /\ \A k \in Cells : Reveal(k).l.result = "NotFound"

\* C10: every created session is eventually ended with none of its callers
\* acting, by the time its expiry callback has run: ended is true and the
\* token is removed; a session ended while not won was ended by the callback;
\* from then on every get and reveal answers NotFound.
C10_ExpiryEnds ==
  /\ (token # "none") ~> (ended /\ token \notin token2game /\ th[Timer].pc = "done")
  /\ []((ended /\ ~AllOpen(items)) => th[Timer].pc = "done")
  /\ []((ended /\ token \notin token2game) => Unreachable)

\* The callback has ended a session that was not won
C10_Witness ==
  /\ token # "none"
  /\ ended
  /\ token \notin token2game
  /\ ~AllOpen(items)
  /\ th[Timer].pc = "done"
  /\ Unreachable

\* ----------------------------------------------------------------- EndSpec
EndPcs == {"end_check", "end_set", "end_pop"}

\* A request thread runs open_game_pic up to its response or, on the win
\* path, up to its call of game.end()
EndOpenPic ==
  /\ misses < MaxEndMisses
  /\ th["w1"].pc \in {"idle", "done"}
  /\ \E rq \in Requests :
       \E w \in {RunUntil(Enter(Shared, rq[1], rq[2], rq[3]), {"done"} \cup EndPcs)} :
         /\ Store(w.g)
         /\ th' = [th EXCEPT !["w1"] = IF w.l.pc = "done" THEN Idle ELSE w.l]
  /\ UNCHANGED <<token, turn0, calls, issued>>

\* threading.Timer(65, self.end): the timer thread calls self.end
TimerFire ==
  /\ th[Timer].pc = "armed"
  /\ th' = [th EXCEPT ![Timer].pc = "end_check"]
  /\ UNCHANGED <<token2game, token, items, score, ended, ended_event,
                 turn0, misses, calls, issued, transitions>>

\* One step of end() in thread t
EndStepOf(t) ==
  /\ th[t].pc \in EndPcs
  /\ \E w \in {EndStep(Shared, th[t])} :
       /\ Store(w.g)
       /\ th' = [th EXCEPT ![t] = w.l]
  /\ UNCHANGED <<token, turn0, calls, issued>>

EndNext ==
  \/ create_game
  \/ EndOpenPic
  \/ TimerFire
  \/ \E t \in {"w1", Timer} : EndStepOf(t)

EndSpec == Init /\ [][EndNext]_vars

\* C3: when the win path of a reveal and the expiry callback both call end,
\* `self.ended = True` and the removal from the store are executed by one of
\* them only, and neither raises an error.
C3_EndOnce ==
  /\ transitions <= 1
  /\ \A t \in Threads : th[t].result # "KeyError"

\* ---------------------------------------------------------------- ConcSpec
\* The cells the concurrent reveals address: the first cells of row 0
ConcCells == 0 .. MaxConcCell

\* A worker thread takes a reveal request: the lookup of the game
Call(t) ==
  /\ token \in Tokens
  /\ th[t].pc = "idle"
  /\ calls < MaxConcCalls
  /\ \E k \in ConcCells :
       \E w \in {Enter(Shared, token, RowOf(k), ColOf(k))} :
         /\ th' = [th EXCEPT ![t] = IF w.l.pc = "done"
                                    THEN [Idle EXCEPT !.result = w.l.result]
                                    ELSE w.l]
         /\ issued' = Append(issued, k)
  /\ calls' = calls + 1
  /\ UNCHANGED <<token2game, token, items, score, ended, ended_event,
                 turn0, misses, transitions>>

\* A worker thread executes the next step of open_game_pic
Step(t) ==
  /\ th[t].pc \notin {"idle", "done"}
  /\ \E w \in {OpenStep(Shared, th[t])} :
       /\ Store(w.g)
       /\ th' = [th EXCEPT ![t] = IF w.l.pc = "done"
                                  THEN [Idle EXCEPT !.result = w.l.result]
                                  ELSE w.l]
  /\ UNCHANGED <<token, turn0, calls, issued>>

ConcNext ==
  \/ create_game
  \/ \E t \in Workers : Call(t)
  \/ \E t \in Workers : Step(t)

ConcSpec == Init /\ [][ConcNext]_vars

\* The session as create_game returned it
Fresh ==
  [Shared EXCEPT
     !.items = [r \in Rows |-> [c \in Cols |->
                  [photoId |-> items[r][c].photoId, status |-> ItemDefaultStatus]]],
     !.score = 0, !.ended = FALSE, !.ended_event = FALSE,
     !.token2game = {token}, !.misses = 0, !.transitions = 0]

RECURSIVE SeqRun(_, _)
\* The reveals of the cells of `cells`, one at a time in this order, from g
SeqRun(g, cells) ==
  IF cells = <<>> THEN g
  ELSE SeqRun(open_game_pic(g, token, RowOf(Head(cells)), ColOf(Head(cells))).g,
              Tail(cells))

\* The orders in which the calls of `cells` can run one at a time
Orders(cells) ==
  {[i \in 1 .. Len(cells) |-> cells[p[i]]] : p \in Permutations(1 .. Len(cells))}

Distinct(cells) == Cardinality({cells[i] : i \in DOMAIN cells}) = Len(cells)

AllReturned == \A t \in Workers : th[t].pc = "idle"

\* C1: when reveal calls on distinct cells of one session have all returned,
\* whatever way their steps interleaved, the tile statuses and the score are
\* those of the same calls run one at a time in some order.
C1_Linearizable ==
  (token \in Tokens /\ AllReturned /\ Distinct(issued)) =>
    \E o \in Orders(issued) :
      \E g \in {SeqRun(Fresh, o)} :
        /\ \A k \in Cells : StatusOf(g.items, k) = StatusOf(items, k)
        /\ g.score = score

\* C2: under every interleaving of reveals on one session the board never
\* holds more than two TEMP_OPEN tiles and no scan collects more than two.
C2_AtMostTwoTempOpen ==
  /\ Cardinality(TempOpen(items)) <= 2
  /\ \A t \in Workers : Len(th[t].temp_opened) <= 2

\* C15: a reveal whose scan has collected more than two TEMP_OPEN tiles does
\* not go on to resolve the first two: it is still scanning, or it has
\* returned (with an outcome of its own).
C15_TooManyReported ==
  \A t \in Workers : Len(th[t].temp_opened) > 2 => th[t].pc = "scan"

\* C16: in every execution, concurrent reveals included, a tile that becomes
\* OPEN in a step was TEMP_OPEN immediately before it (never CLOSED).
C16_OpenOnlyFromTempOpen ==
  [][token # "none" =>
       \A k \in Cells :
         (StatusOf(items', k) = "OPEN" /\ StatusOf(items, k) # "OPEN")
           => StatusOf(items, k) = "TEMP_OPEN"]_vars

\* ---------------------------------------------------------------- RaceSpec
\* One worker thread runs reveals step by step while the timer thread runs
\* end() step by step.
RaceNext ==
  \/ create_game
  \/ Call("w1")
  \/ Step("w1")
  \/ TimerFire
  \/ EndStepOf(Timer)

RaceSpec == Init /\ [][RaceNext]_vars

\* C18: once ended is true no step changes a tile's status or the score, not
\* even a step of a reveal that found the session before it ended.
C18_EndedFreezes ==
  [][ended => (score' = score
               /\ \A k \in Cells : StatusOf(items', k) = StatusOf(items, k))]_vars

====
